---------------------------- MODULE Spec2Model ----------------------------
(***************************************************************************)
(* Model of updatechecker (src/main.go): one audit run after another.  A   *)
(* run loads the checkpoint, lists the repositories, clones and scans each *)
(* of them for changed configuration files, appends to the day's report    *)
(* and finally saves the run's start time as the next checkpoint.          *)
(***************************************************************************)
EXTENDS Integers, Sequences, FiniteSets, TLC

(***************************************************************************)
(* Bounds of the model.                                                    *)
(***************************************************************************)
\* Unix second of tick 0 (Tue Dec 10 13:07:28 2019 +0800, the example of main.go:131).
Epoch == 1575954448
\* Clock ticks per second: time.Time is finer than the second DateFormat prints.
TicksPerSec == 2
\* The wall clock runs over the ticks 0..MaxClock.
MaxClock == 1
\* Runs of the program in one behaviour.
MaxRuns == 2
\* Commits pushed to the remotes in one behaviour.
MaxPush == 1
\* Calls that fail (an I/O or network error) in one behaviour.
MaxFaults == 1

(***************************************************************************)
(* time.Time: an instant t, in ticks since Epoch, with the zone offset     *)
(* off (seconds east of UTC) it is displayed in.                           *)
(***************************************************************************)
\* time.Now().AddDate(0, -6, 0): the months argument.
MonthsBack == -6

Time(t, off) == [t |-> t, off |-> off]

\* The zone offsets of the model, in seconds east of UTC: +0800, and -0330,
\* the zone the program runs in.
East == 8 * 3600
LocalZone == -(3 * 3600 + 30 * 60)

Unix(x) == Epoch + (x.t \div TicksPerSec)

\* The test with the boundary let in: "not before" instead of "after".
SubNotNegative(a, b) == a.t - b.t >= 0

\* c.Author.When.Sub(lastTime) > 0: Sub saturates but keeps the sign, so the
\* test is "a is strictly after b" on the instants, zones aside.
SubPositive(a, b) == a.t - b.t > 0

\* Days since 1970-01-01 of the civil date y-m-d (proleptic Gregorian).
DaysFromCivil(y, m, d) ==
    LET yy  == IF m <= 2 THEN y - 1 ELSE y
        era == yy \div 400
        yoe == yy - era * 400
        mp  == (m + 9) % 12
        doy == (153 * mp + 2) \div 5 + d - 1
        doe == yoe * 365 + yoe \div 4 - yoe \div 100 + doy
    IN  era * 146097 + doe - 719468

\* The civil date of a day number.
CivilFromDays(z) ==
    LET z2  == z + 719468
        era == z2 \div 146097
        doe == z2 - era * 146097
        yoe == (doe - doe \div 1460 + doe \div 36524 - doe \div 146096) \div 365
        doy == doe - (365 * yoe + yoe \div 4 - yoe \div 100)
        mp  == (5 * doy + 2) \div 153
        m   == IF mp < 10 THEN mp + 3 ELSE mp - 9
    IN  [year  |-> yoe + era * 400 + (IF m <= 2 THEN 1 ELSE 0),
         month |-> m,
         day   |-> doy - (153 * mp + 2) \div 5 + 1]

DaysIn(y, m) ==
    IF m = 2
    THEN (IF (y % 4 = 0 /\ y % 100 # 0) \/ y % 400 = 0 THEN 29 ELSE 28)
    ELSE IF m \in {4, 6, 9, 11} THEN 30 ELSE 31

\* The wall clock reading of x in its own zone.
Clock(x) ==
    LET ls == Unix(x) + x.off
        c  == CivilFromDays(ls \div 86400)
    IN  [year |-> c.year, month |-> c.month, day |-> c.day,
         wday |-> ((ls \div 86400) + 4) % 7,
         sod  |-> ls % 86400]

\* x.Format(object.DateFormat), "Mon Jan 02 15:04:05 2006 -0700", as the
\* sequence of its fields: weekday (Sunday = 0), month, day, hour, minute,
\* second, year, zone sign, zone hours, zone minutes.  The fraction of a
\* second is not printed, and the zone is printed in whole minutes.
Format(x) ==
    LET c    == Clock(x)
        zmin == (IF x.off < 0 THEN -x.off ELSE x.off) \div 60
    IN  << c.wday, c.month, c.day,
           c.sod \div 3600, (c.sod % 3600) \div 60, c.sod % 60,
           c.year,
           IF x.off < 0 THEN -1 ELSE 1, zmin \div 60, zmin % 60 >>

\* Whether time.Parse(object.DateFormat, data) accepts data.  The fields of
\* the date and the clock are range checked; of the zone, time.Parse refuses
\* only hours above 24 and minutes above 60.
Parses(data) ==
    /\ Len(data) = 10
    /\ data[1] \in 0..6
    /\ data[7] \in 0..9999
    /\ data[2] \in 1..12
    /\ data[3] \in 1..DaysIn(data[7], data[2])
    /\ data[4] \in 0..23
    /\ data[5] \in 0..59
    /\ data[6] \in 0..59
    /\ data[8] \in {-1, 1}
    /\ data[9] \in 0..24
    /\ data[10] \in 0..60

\* A parse that reads the wall clock fields as UTC and leaves the zone out.
ParseNoZone(data) ==
    LET sec == DaysFromCivil(data[7], data[2], data[3]) * 86400
               + data[4] * 3600 + data[5] * 60 + data[6]
    IN  Time((sec - Epoch) * TicksPerSec, 0)

\* time.Parse(object.DateFormat, data) of an accepted data: the instant of
\* the wall clock reading in the printed zone; the weekday is not used.
Parse(data) ==
    LET off == data[8] * (data[9] * 60 + data[10]) * 60
        sec == DaysFromCivil(data[7], data[2], data[3]) * 86400
               + data[4] * 3600 + data[5] * 60 + data[6] - off
    IN  Time((sec - Epoch) * TicksPerSec, off)

\* x.AddDate(0, months, 0): the same wall clock reading months later, the
\* month normalised into the year and a day past the month's end carried on.
AddDate(x, months) ==
    LET c   == Clock(x)
        mi  == c.month - 1 + months
        y   == c.year + (mi \div 12)
        m   == (mi % 12) + 1
        sec == (DaysFromCivil(y, m, 1) + c.day - 1) * 86400 + c.sod - x.off
    IN  Time((sec - Epoch) * TicksPerSec + (x.t % TicksPerSec), x.off)

\* time.Time{}, the value readCheckTime returns beside an error: long before
\* every instant of the model.
ZeroTime == Time(-2000000000, 0)

(***************************************************************************)
(* The world outside the program: the account's repositories, their head   *)
(* trees and the history of every file.                                    *)
(***************************************************************************)
Repos == {"r1", "r2"}

ConfA == <<"c", "o", "n", "f", "/", "a">>
BConf == <<"b", "/", "c", "o", "n", "f">>
ConF  == <<"c", "o", "n", "/", "f">>

\* tree.Files() of the head commit, in the order the tree is walked: git
\* keeps a tree's entries sorted by name, a directory's name ending in "/".
TreeFiles(r) ==
    CASE r = "r1" -> <<BConf, ConF, ConfA>>
      [] OTHER    -> <<ConF, ConfA>>

\* The values config.yml may give for "pattern".
Patterns == {<<"c", "o", "n", "f">>}

Seconds(s, off) == Time(s * TicksPerSec, off)

\* A commit made a year before the model's clock starts.
Old == Seconds(-366 * 86400, East)

\* Author times a pushed commit may carry: whole seconds (git stores no
\* fraction), before, at and after the instants the runs start at.
AuthorWhens == {Seconds(s, LocalZone) : s \in -1..(MaxClock \div TicksPerSec)}

\* The per-file histories of the remotes when the first run starts, newest first.
InitialLog ==
    [r \in Repos |->
       CASE r = "r1" -> (ConfA :> <<Seconds(-1, East), Old>>)
                        @@ (ConF :> <<Old>>) @@ (BConf :> <<Old>>)
         [] OTHER    -> (ConF :> <<Old>>)
                        @@ (ConfA :> <<Seconds(0, LocalZone)>>)]

\* The contents check.txt may have before the first run: a timestamp saved
\* two seconds before the clock starts, the same with a final newline, and
\* a text that is no timestamp (month 13).
File(text, nl) == [exists |-> TRUE, text |-> text, nl |-> nl]
NoFile == [exists |-> FALSE, text |-> <<>>, nl |-> 0]
Garbage == <<2, 13, 10, 13, 7, 28, 2019, 1, 8, 0>>
InitialCheckFiles ==
    {NoFile, File(Format(Seconds(-2, East)), 1), File(Garbage, 0)}

(***************************************************************************)
(* Pure parts of the program.                                              *)
(***************************************************************************)
Range(s) == {s[i] : i \in DOMAIN s}

Perms(S) ==
    {s \in [1..Cardinality(S) -> S] :
        \A i, j \in DOMAIN s : i # j => s[i] # s[j]}

\* strings.Contains(s, sub)
Contains(s, sub) ==
    \E i \in 0..(Len(s) - Len(sub)) : SubSeq(s, i + 1, i + Len(sub)) = sub

\* strings.TrimRight(string(b), "\n")
TrimRight(file) == file.text

\* The body of the callback of iter.ForEach for one commit.
Visit(result, name, when, lastTime) ==
    IF SubPositive(when, lastTime)
    THEN IF name \notin DOMAIN result
         THEN result @@ (name :> when)
         ELSE IF SubPositive(when, result[name])
              THEN [result EXCEPT ![name] = when]
              ELSE result
    ELSE result

\* iter.ForEach over the commits of one file's history.
RECURSIVE VisitCommits(_, _, _, _)
VisitCommits(result, name, commits, lastTime) ==
    IF commits = <<>>
    THEN result
    ELSE VisitCommits(Visit(result, name, Head(commits), lastTime),
                      name, Tail(commits), lastTime)

\* What can go wrong while the histories are read: nothing, or
\* repository.Log fails for the file at index at of the tree.
NoFault == [kind |-> "none", at |-> 0]
Faults(files, pattern) ==
    {NoFault}
    \cup {[kind |-> "log", at |-> i] :
            i \in {j \in DOMAIN files : Contains(files[j], pattern)}}

\* tree.Files().ForEach from the file at index i on.  The error of
\* repository.Log is returned by the callback, which ends the walk over the
\* tree; what ForEach returns is dropped (line 116).
RECURSIVE ForEachFile(_, _, _, _, _, _, _)
ForEachFile(result, files, i, hist, pattern, lastTime, fault) ==
    IF i > Len(files)
    THEN result
    ELSE IF ~Contains(files[i], pattern)
    THEN ForEachFile(result, files, i + 1, hist, pattern, lastTime, fault)
    ELSE IF fault.kind = "log" /\ fault.at = i
    THEN result
    ELSE ForEachFile(VisitCommits(result, files[i], hist[files[i]], lastTime),
                     files, i + 1, hist, pattern, lastTime, fault)

\* The map "result" of checkRepository once the tree has been walked.
Detect(files, hist, pattern, lastTime, fault) ==
    ForEachFile(<<>>, files, 1, hist, pattern, lastTime, fault)

\* One line of the report; the blank line that ends a repository's block.
Line(key, repos, val) == <<key, repos, Format(val)>>
Blank == <<>>

\* The lines checkRepository writes for result, its keys taken in order.
Lines(result, order, repos) ==
    [i \in DOMAIN order |-> Line(order[i], repos, result[order[i]])]

\* A readCheckTime that falls back to the first run's default when the file
\* holds no timestamp.
ReadCheckTimeLenient(file, ioErr, now) ==
    IF ~file.exists
    THEN [case |-> "absent", t |-> AddDate(now, MonthsBack)]
    ELSE IF ioErr
    THEN [case |-> "ioerr", t |-> ZeroTime]
    ELSE IF ~Parses(TrimRight(file))
    THEN [case |-> "absent", t |-> AddDate(now, MonthsBack)]
    ELSE [case |-> "parsed", t |-> Parse(TrimRight(file))]

\* readCheckTime(filename).  ioErr: os.Stat fails for another reason than a
\* missing file, or ioutil.ReadFile fails.  now: what time.Now() returns.
ReadCheckTime(file, ioErr, now) ==
    IF ~file.exists
    THEN [case |-> "absent", t |-> AddDate(now, MonthsBack)]
    ELSE IF ioErr
    THEN [case |-> "ioerr", t |-> ZeroTime]
    ELSE IF ~Parses(TrimRight(file))
    THEN [case |-> "corrupt", t |-> ZeroTime]
    ELSE [case |-> "parsed", t |-> Parse(TrimRight(file))]

\* The path recorded only once the whole function has gone through.
RecordPathLate(paths, dest, err) ==
    IF err # "" THEN paths ELSE Append(paths, dest)

\* cleanPaths after the first lines of checkRepository, which ended with err
\* ("" when they all went through): dest is recorded once the clone is there.
RecordPath(paths, dest, err) ==
    IF err = "clone" THEN paths ELSE Append(paths, dest)

\* check.txt after writeCheckTime got the file open, and so truncated: the
\* result of f.WriteString is dropped.  A write that fails leaves the file
\* empty here; a part of the text would be as far from a timestamp.
WrittenCheckFile(startTime, writeErr) ==
    IF writeErr THEN File(<<>>, 0) ELSE File(Format(startTime), 0)

(***************************************************************************)
(* The state.                                                              *)
(***************************************************************************)
VARIABLES
    clock,       \* the wall clock, in ticks
    log,         \* the remotes: log[r][f] is the history of file f, newest first
    pushes,      \* commits pushed so far
    pattern,     \* "pattern" of config.yml
    checkFile,   \* check.txt
    dirs,        \* the repositories whose local clone directory exists
    report,      \* the lines of the report file the run has open
    pc,          \* where main is
    runs,        \* processes started so far
    start,       \* var start
    cleanPaths,  \* var cleanPaths
    lastTime,    \* main's lastTime
    conf,        \* main's conf
    todo,        \* the keys of main's repositories the loop has not taken yet
    \* What happened, kept for the properties:
    panicAt,     \* the step whose error main panicked with, "" if none
    prevCheck,   \* check.txt as it was when the process started
    loadCase,    \* which way readCheckTime took
    loadNow,     \* what time.Now() returned to readCheckTime
    loadSaved,   \* savedStart when readCheckTime read the file
    savedStart,  \* the start time check.txt holds, ZeroTime if none of the runs wrote it
    scans,       \* one record per call of checkRepository of this process
    attempted,   \* the paths os.RemoveAll was called with by this process
    allOk,       \* every process so far ran to its end without a panic
    faults,      \* calls that failed so far
    faulty,      \* some error was dropped so far
    firstCheck,  \* lastTime of the first process
    seen,        \* commits <<r, f, k>> (k-th oldest of f's history) a scan has met
    credited     \* those of them whose file a line of that scan's report names

env   == <<clock, log, pushes, pattern, checkFile, dirs, report>>
proc  == <<pc, runs, start, cleanPaths, lastTime, conf, todo>>
ghost == <<panicAt, prevCheck, loadCase, loadNow, loadSaved, savedStart, scans, attempted,
           allOk, faults, faulty, firstCheck, seen, credited>>
vars  == <<env, proc, ghost>>

NoConf == [Pattern |-> <<>>]

Init ==
    /\ clock \in 0..MaxClock
    /\ log = InitialLog
    /\ pushes = 0
    /\ pattern \in Patterns
    /\ checkFile \in InitialCheckFiles
    /\ dirs = {}
    /\ report = <<>>
    /\ pc = "prepareDir"
    /\ runs = 1
    /\ start = Time(clock, LocalZone)
    /\ cleanPaths = <<>>
    /\ lastTime = ZeroTime
    /\ conf = NoConf
    /\ todo = {}
    /\ panicAt = ""
    /\ prevCheck = checkFile
    /\ loadCase = ""
    /\ loadNow = 0
    /\ loadSaved = ZeroTime
    /\ savedStart = ZeroTime
    /\ scans = <<>>
    /\ attempted = {}
    /\ allOk = TRUE
    /\ faults = 0
    /\ faulty = FALSE
    /\ firstCheck = ZeroTime
    /\ seen = {}
    /\ credited = {}

(***************************************************************************)
(* Failures and the end of a process.                                      *)
(***************************************************************************)
\* A call fails: the model lets MaxFaults calls fail in one behaviour.
Fails == faults < MaxFaults /\ faults' = faults + 1
Works == faults' = faults

\* panic(err) in main before the defers of lines 244-251 are in place.
PanicEarly(at) ==
    /\ pc' = "panic"
    /\ panicAt' = at
    /\ allOk' = FALSE

\* The deferred function of lines 246-251, run when main returns or panics:
\* os.RemoveAll on every recorded path, its result dropped.
Deferred(paths, ds) ==
    /\ dirs' = ds \ Range(paths)
    /\ attempted' = Range(paths)

\* panic(err) in main with the defers in place.
Panic(at, paths, ds) ==
    /\ pc' = "panic"
    /\ panicAt' = at
    /\ allOk' = FALSE
    /\ Deferred(paths, ds)

(***************************************************************************)
(* The steps of main.                                                      *)
(***************************************************************************)
\* What main does next in its loop: the next key of the map, or
\* writeCheckTime once none is left.
AfterCheck(left) == IF left = {} THEN "writeCheckTime" ELSE "loop"

\* Lines 215-218: prepareDir(resultDir).
PrepareDir ==
    /\ pc = "prepareDir"
    /\ \/ Works /\ pc' = "readCheckTime" /\ UNCHANGED <<panicAt, allOk>>
       \/ Fails /\ PanicEarly("prepareDir")
    /\ UNCHANGED <<env, runs, start, cleanPaths, lastTime, conf, todo,
                   prevCheck, loadCase, loadNow, loadSaved, savedStart, scans, attempted,
                   faulty, firstCheck, seen, credited>>

\* Lines 220-224: readCheckTime(checkFileName).
ReadCheck ==
    /\ pc = "readCheckTime"
    /\ \E now \in clock..MaxClock, ioErr \in {FALSE, checkFile.exists} :
         LET res == ReadCheckTime(checkFile, ioErr, Time(now, start.off)) IN
         /\ checkFile.exists => now = clock
         /\ IF ioErr THEN Fails ELSE Works
         /\ clock' = now
         /\ loadNow' = now
         /\ loadSaved' = (IF res.case = "parsed" THEN savedStart ELSE ZeroTime)
         /\ loadCase' = res.case
         /\ IF res.case \in {"absent", "parsed"}
            THEN /\ lastTime' = res.t
                 /\ firstCheck' = (IF runs = 1 THEN res.t ELSE firstCheck)
                 /\ pc' = "parseYamlFile"
                 /\ UNCHANGED <<panicAt, allOk>>
            ELSE /\ PanicEarly("readCheckTime")
                 /\ UNCHANGED <<lastTime, firstCheck>>
    /\ UNCHANGED <<log, pushes, pattern, checkFile, dirs, report, runs, start,
                   cleanPaths, conf, todo, prevCheck, savedStart, scans,
                   attempted, faulty, seen, credited>>

\* Lines 226-230: parseYamlFile(configFileName, &conf).
ParseYamlFile ==
    /\ pc = "parseYamlFile"
    /\ \/ /\ Works
          /\ conf' = [Pattern |-> pattern]
          /\ pc' = "retrieveRepositories"
          /\ UNCHANGED <<panicAt, allOk>>
       \/ Fails /\ PanicEarly("parseYamlFile") /\ UNCHANGED conf
    /\ UNCHANGED <<env, runs, start, cleanPaths, lastTime, todo, prevCheck,
                   loadCase, loadNow, loadSaved, savedStart, scans, attempted, faulty,
                   firstCheck, seen, credited>>

\* Lines 232-236: retrieveRepositories(&conf).  The listing gives the
\* account's repositories; of the map only the keys are kept, the clone URL
\* of a repository being one with its name here.
RetrieveRepositories ==
    /\ pc = "retrieveRepositories"
    /\ \/ /\ Works
          /\ todo' = Repos
          /\ pc' = "openReport"
          /\ UNCHANGED <<panicAt, allOk>>
       \/ Fails /\ PanicEarly("retrieveRepositories") /\ UNCHANGED todo
    /\ UNCHANGED <<env, runs, start, cleanPaths, lastTime, conf, prevCheck,
                   loadCase, loadNow, loadSaved, savedStart, scans, attempted, faulty,
                   firstCheck, seen, credited>>

\* Lines 238-251: the day's report file is created or truncated, and the
\* defers are put in place.  report is what the file opened here holds.
OpenReport ==
    /\ pc = "openReport"
    /\ \/ /\ Works
          /\ report' = <<>>
          /\ pc' = AfterCheck(todo)
          /\ UNCHANGED <<panicAt, allOk>>
       \/ Fails /\ PanicEarly("openReport") /\ UNCHANGED report
    /\ UNCHANGED <<clock, log, pushes, pattern, checkFile, dirs, runs, start, cleanPaths, lastTime, conf, todo,
                   prevCheck, loadCase, loadNow, loadSaved, savedStart, scans, attempted,
                   faulty, firstCheck, seen, credited>>

\* The record kept of one call of checkRepository.
ScanRecord(r, err, cloned, hist, fault, result, written) ==
    [repos |-> r, err |-> err, cloned |-> cloned, files |-> TreeFiles(r),
     hist |-> hist, pattern |-> conf.Pattern, lastTime |-> lastTime,
     fault |-> fault, result |-> result, written |-> written]

\* Lines 80-93: git.PlainClone fails.  A clone that fails on the way removes
\* what it had created (go-git v4 cleans up after a failed PlainClone), so
\* no directory is there that this process made.
CloneFails(r) ==
    /\ Fails
    /\ Panic("checkRepository", RecordPath(cleanPaths, r, "clone"), dirs)
    /\ scans' = Append(scans, ScanRecord(r, "clone", FALSE, <<>>, NoFault, <<>>, <<>>))
    /\ UNCHANGED <<cleanPaths, report, faulty>>

\* Lines 94-113: the clone is there and recorded; repository.Head,
\* repository.CommitObject or commit.Tree fails.
ResolveFails(r) ==
    /\ Fails
    /\ \E err \in {"head", "commit", "tree"} :
         /\ cleanPaths' = RecordPath(cleanPaths, r, err)
         /\ Panic("checkRepository", cleanPaths', dirs \cup {r})
         /\ scans' = Append(scans, ScanRecord(r, err, TRUE, log[r], NoFault, <<>>, <<>>))
    /\ UNCHANGED <<report, faulty>>

\* Lines 94-159: the tree is walked and the result written.  order is the
\* order "range result" takes the keys in; the write of line number wf fails
\* (none when wf = 0); sepErr: the write of the blank line fails, which the
\* code does not look at.
Scanned(r) ==
    \E fault \in Faults(TreeFiles(r), conf.Pattern) :
      LET result == Detect(TreeFiles(r), log[r], conf.Pattern, lastTime, fault)
          keys   == DOMAIN result
          nf     == IF fault = NoFault THEN 0 ELSE 1
      IN  \E order \in Perms(keys), wf \in 0..Cardinality(keys),
             sepErr \in {FALSE, keys # {}} :
            LET lines   == Lines(result, order, r)
                written == IF wf > 0 THEN SubSeq(lines, 1, wf - 1)
                           ELSE IF keys # {} /\ ~sepErr
                                THEN Append(lines, Blank)
                                ELSE lines
                n       == nf + (IF wf > 0 \/ sepErr THEN 1 ELSE 0)
            IN  /\ wf > 0 => ~sepErr
                /\ faults + n <= MaxFaults
                /\ faults' = faults + n
                /\ report' = report \o written
                /\ cleanPaths' = RecordPath(cleanPaths, r, "")
                /\ scans' = Append(scans,
                       ScanRecord(r, IF wf > 0 THEN "write" ELSE "", TRUE,
                                  log[r], fault, result, written))
                /\ faulty' = (faulty \/ fault # NoFault \/ sepErr)
                /\ IF wf > 0
                   THEN Panic("checkRepository", cleanPaths', dirs \cup {r})
                   ELSE /\ pc' = AfterCheck(todo')
                        /\ dirs' = dirs \cup {r}
                        /\ UNCHANGED <<panicAt, allOk, attempted>>

\* Lines 253-263: one turn of the loop over the map, whose order is not fixed.
CheckRepository ==
    /\ pc = "loop"
    /\ \E r \in todo :
         /\ todo' = todo \ {r}
         /\ \/ CloneFails(r)
            \/ ResolveFails(r)
            \/ Scanned(r)
    /\ UNCHANGED <<clock, log, pushes, pattern, checkFile, runs, start,
                   lastTime, conf, prevCheck, loadCase, loadNow, loadSaved, savedStart,
                   firstCheck, seen, credited>>

\* The commits of the matching files of the head a scan was given, each
\* named by its place in the file's history counted from the oldest.
SeenIn(sc) ==
    UNION {{<<sc.repos, f, k>> : k \in 1..Len(sc.hist[f])} :
             f \in {g \in Range(sc.files) : Contains(g, sc.pattern)}}

\* Those of them whose file the scan's report lines name.
CreditedIn(sc) == {c \in SeenIn(sc) : c[2] \in DOMAIN sc.result}

\* Lines 265-269: writeCheckTime(checkFileName), and main returns.
WriteCheckTime ==
    /\ pc = "writeCheckTime"
    /\ \/ /\ Fails
          /\ Panic("writeCheckTime", cleanPaths, dirs)
          /\ UNCHANGED <<checkFile, savedStart, faulty, seen, credited>>
       \/ \E writeErr \in BOOLEAN :
            /\ IF writeErr THEN Fails ELSE Works
            /\ checkFile' = WrittenCheckFile(start, writeErr)
            /\ savedStart' = (IF writeErr THEN ZeroTime ELSE start)
            /\ faulty' = (faulty \/ writeErr)
            /\ pc' = "exit"
            /\ Deferred(cleanPaths, dirs)
            /\ seen' = seen \cup UNION {SeenIn(scans[i]) : i \in DOMAIN scans}
            /\ credited' = credited
                           \cup UNION {CreditedIn(scans[i]) : i \in DOMAIN scans}
            /\ UNCHANGED <<panicAt, allOk>>
    /\ UNCHANGED <<clock, log, pushes, pattern, report, runs, start,
                   cleanPaths, lastTime, conf, todo, prevCheck, loadCase,
                   loadNow, loadSaved, scans, firstCheck>>

\* The program is started again: the package variables are set anew
\* (lines 18-24), start to time.Now().
Restart ==
    /\ pc \in {"exit", "panic"}
    /\ runs < MaxRuns
    /\ \E now \in clock..MaxClock :
         /\ clock' = now
         /\ start' = Time(now, LocalZone)
    /\ pc' = "prepareDir"
    /\ runs' = runs + 1
    /\ cleanPaths' = <<>>
    /\ lastTime' = ZeroTime
    /\ conf' = NoConf
    /\ todo' = {}
    /\ report' = <<>>
    /\ panicAt' = ""
    /\ prevCheck' = checkFile
    /\ loadCase' = ""
    /\ loadNow' = 0
    /\ loadSaved' = ZeroTime
    /\ scans' = <<>>
    /\ attempted' = {}
    /\ UNCHANGED <<log, pushes, pattern, checkFile, dirs, savedStart,
                   allOk, faults, faulty, firstCheck, seen, credited>>

\* The files somebody pushes to while the model runs.
PushTargets == {<<"r2", ConfA>>}

\* Somebody pushes a commit that touches a file; its author time is
\* whatever the author's clock said when the commit was made.
Push ==
    /\ pushes < MaxPush
    /\ \E p \in PushTargets, w \in AuthorWhens :
         log' = [log EXCEPT ![p[1]][p[2]] = <<w>> \o @]
    /\ pushes' = pushes + 1
    /\ UNCHANGED <<clock, pattern, checkFile, dirs, report, proc, ghost>>

Next ==
    \/ PrepareDir
    \/ ReadCheck
    \/ ParseYamlFile
    \/ RetrieveRepositories
    \/ OpenReport
    \/ CheckRepository
    \/ WriteCheckTime
    \/ Restart
    \/ Push

Spec == Init /\ [][Next]_vars

(***************************************************************************)
(* Properties.                                                             *)
(***************************************************************************)
\* The report lines of a scan that name file f.
LinesOf(sc, f) == {l \in Range(sc.written) : l # Blank /\ l[1] = f}

\* The commits of f's history a scan with checkpoint sc.lastTime has to take.
Qualifying(sc, f) == {c \in Range(sc.hist[f]) : c.t > sc.lastTime.t}

\* The files of the head tree the scan is about.
Matching(sc) == {f \in Range(sc.files) : Contains(f, sc.pattern)}

\* The time stored for f after the first k commits of its history.
StoredAfter(sc, f, k) == VisitCommits(<<>>, f, SubSeq(sc.hist[f], 1, k), sc.lastTime)

\* C1: for every scan checkRepository returned from without an error, a
\* matching file of the head tree has a line in the report iff one of its
\* commits has an author time strictly after the checkpoint, the time of
\* the line is the maximum of those author times, and while the history is
\* walked the stored time is never replaced by an earlier one.
C1_ReportedIffChanged ==
    \A i \in DOMAIN scans :
      LET sc == scans[i] IN
      sc.err = "" =>
        \A f \in Matching(sc) :
          /\ (LinesOf(sc, f) # {}) <=> (Qualifying(sc, f) # {})
          /\ \A l \in LinesOf(sc, f) :
               /\ Parses(l[3])
               /\ \E c \in Qualifying(sc, f) : Parse(l[3]).t = c.t
               /\ \A c \in Qualifying(sc, f) : Parse(l[3]).t >= c.t
          /\ \A k \in 1..(Len(sc.hist[f]) - 1) :
               f \in DOMAIN StoredAfter(sc, f, k) =>
                 /\ f \in DOMAIN StoredAfter(sc, f, k + 1)
                 /\ StoredAfter(sc, f, k + 1)[f].t >= StoredAfter(sc, f, k)[f].t

\* Whether some call of this process failed without main hearing of it.
DroppedInRun == \E i \in DOMAIN scans : scans[i].fault # NoFault

\* C2: check.txt differs from what it held when the process started only
\* once main has returned from a run in which no step failed, and then it
\* holds the start time of that run; after a panic it holds what it held.
C2_CheckpointOnlyAfterCleanRun ==
    /\ checkFile # prevCheck =>
         /\ pc = "exit"
         /\ ~DroppedInRun
         /\ checkFile = File(Format(start), 0)
    /\ pc = "panic" => checkFile = prevCheck

\* C3: when repository.Log fails for a matching file, checkRepository
\* returns an error: main panics, no further repository is scanned and
\* check.txt stays as it was.
C3_LogFailureIsFatal ==
    \A i \in DOMAIN scans :
      scans[i].fault.kind = "log" =>
        /\ scans[i].err # ""
        /\ i = Len(scans)
        /\ pc = "panic"
        /\ checkFile = prevCheck

\* C4: when the process has ended, by return or by panic, os.RemoveAll was
\* called for the directory of every clone this process made, and none of
\* them is left.
C4_ClonesRemovedOnExit ==
    pc \in {"exit", "panic"} =>
      \A i \in DOMAIN scans :
        scans[i].cloned =>
          /\ scans[i].repos \in attempted
          /\ scans[i].repos \notin dirs

\* A process that cloned two repositories and panicked because the head of
\* the second could not be resolved.
C4_Witness ==
    /\ pc = "panic"
    /\ panicAt = "checkRepository"
    /\ Len(scans) >= 2
    /\ scans[1].cloned
    /\ scans[Len(scans)].cloned
    /\ scans[Len(scans)].err \in {"head", "commit", "tree"}

\* C5: in a run whose checkpoint is the start time an earlier run saved, a
\* matching file all of whose commits have an author time before or equal
\* to the checkpoint has no line in the report.
C5_NoReportAtOrBeforeCheckpoint ==
    (loadCase = "parsed" /\ loadSaved # ZeroTime) =>
      \A i \in DOMAIN scans :
        scans[i].cloned =>
          \A f \in Matching(scans[i]) :
            (\A c \in Range(scans[i].hist[f]) : c.t <= lastTime.t) =>
               LinesOf(scans[i], f) = {}

\* A second run that ended well, with a file whose newest commit carries
\* exactly the checkpoint as its author time, and no line for it.
C5_Witness ==
    /\ pc = "exit"
    /\ loadCase = "parsed"
    /\ loadSaved # ZeroTime
    /\ \E i \in DOMAIN scans :
         \E f \in Matching(scans[i]) :
           /\ scans[i].cloned
           /\ \E c \in Range(scans[i].hist[f]) : c.t = lastTime.t
           /\ \A c \in Range(scans[i].hist[f]) : c.t <= lastTime.t
           /\ LinesOf(scans[i], f) = {}
           /\ scans[i].err = ""

\* The blocks a scan may have put into the report, one for each order its
\* files can be taken in.
Blocks(sc) ==
    IF DOMAIN sc.result = {}
    THEN {<<>>}
    ELSE {Append(Lines(sc.result, o, sc.repos), Blank) : o \in Perms(DOMAIN sc.result)}

\* Whether rep is made of a block of each scan of scs, in their order.
RECURSIVE IsBlocks(_, _)
IsBlocks(rep, scs) ==
    IF scs = <<>>
    THEN rep = <<>>
    ELSE \E b \in Blocks(Head(scs)) :
           /\ Len(b) <= Len(rep)
           /\ SubSeq(rep, 1, Len(b)) = b
           /\ IsBlocks(SubSeq(rep, Len(b) + 1, Len(rep)), Tail(scs))

\* C6: after a run that ended well the report is, repository after
\* repository in the order they were scanned, one block for every
\* repository with a non-empty result (a line for each of its files, then
\* one blank line) and nothing for a repository with an empty result.
C6_ReportIsBlocks == pc = "exit" => IsBlocks(report, scans)

\* C7: the checkpoint read from a file a run has saved is the instant that
\* run started at, cut to the whole second, and never later than it.
C7_CheckpointRoundTrip ==
    (loadCase = "parsed" /\ loadSaved # ZeroTime) =>
      /\ lastTime.t <= loadSaved.t
      /\ loadSaved.t - lastTime.t < TicksPerSec
      /\ lastTime.t % TicksPerSec = 0

\* A checkpoint read back from a run that had started within a second.
C7_Witness ==
    /\ loadCase = "parsed"
    /\ loadSaved # ZeroTime
    /\ loadSaved.t % TicksPerSec # 0
    /\ lastTime.t < loadSaved.t

\* a is the wall clock reading of b six months earlier.
SixMonthsBefore(a, b) ==
    LET ca == Clock(a)
        cb == Clock(b)
    IN  /\ (cb.year * 12 + cb.month) - (ca.year * 12 + ca.month) = 6
        /\ ca.day = cb.day
        /\ ca.sod = cb.sod
        /\ a.t % TicksPerSec = b.t % TicksPerSec
        /\ a.off = b.off

\* C8: once readCheckTime has run, if check.txt was missing the load went
\* through with the time six months before now; if check.txt was there
\* with a text that is no timestamp, main has panicked on it with nothing
\* listed, cloned or scanned and no checkpoint put in its place.
C8_LoadDefaultsOnlyWhenAbsent ==
    loadCase # "" =>
      /\ ~prevCheck.exists =>
           /\ panicAt # "readCheckTime"
           /\ SixMonthsBefore(lastTime, Time(loadNow, LocalZone))
      /\ (prevCheck.exists /\ ~Parses(TrimRight(prevCheck))) =>
           /\ pc = "panic"
           /\ panicAt = "readCheckTime"
           /\ lastTime = ZeroTime
           /\ conf = NoConf
           /\ todo = {}
           /\ scans = <<>>
           /\ cleanPaths = <<>>

\* A first run that found no check.txt and took the default, and a later
\* run that panicked on a check.txt that holds no timestamp.
C8_Witness ==
    /\ runs > 1
    /\ firstCheck # ZeroTime
    /\ firstCheck.t < Seconds(-86400, LocalZone).t
    /\ loadCase = "corrupt"
    /\ pc = "panic"

\* C9: writeCheckTime returns nil, and main returns, only when check.txt
\* holds the start time of the run.
C9_SaveReportsFailure ==
    pc = "exit" => checkFile = File(Format(start), 0)

\* The author time of commit c = <<r, f, k>>.
When(c) == log[c[1]][c[2]][Len(log[c[1]][c[2]]) - c[3] + 1]

\* C10: when every run so far has ended well and no error was dropped,
\* every commit a scan of these runs has met whose author time is after
\* the first run's checkpoint belongs to a file that a scan which met the
\* commit has reported.
C10_NoChangeLost ==
    (pc = "exit" /\ allOk /\ ~faulty) =>
      \A c \in seen : When(c).t > firstCheck.t => c \in credited

=============================================================================
